---------------------------- MODULE Spec2Model ----------------------------
(***************************************************************************)
(* Job orchestration and transcode coordination of the M3U8 player API.    *)
(*                                                                         *)
(* Modelled sources:                                                       *)
(*   src/src/services/download.service.js  DownloadService, JobManager     *)
(*   src/src/routes/stream.js              POST /start, POST /cancel,      *)
(*                                         GET /progress, processVideo     *)
(*   src/unnamed/part_000                  FFmpegService (parallel encode) *)
(*   src/unnamed/part_001                  PlaylistGenerator               *)
(*                                                                         *)
(* Numbers.  Task percentages are whole percents.  Aggregated and job      *)
(* progress values are JavaScript doubles in the code; here they are exact *)
(* fixed-point numbers counted in ticks, PerCent ticks to one percent,     *)
(* PerCent chosen so that every division the code performs is exact.       *)
(***************************************************************************)
EXTENDS Integers, Sequences, FiniteSets, TLC

\* ------------------------------------------------------------------ bounds
MaxAudio == 2
MaxBytes == 3
MaxHandles == 3
MaxClock == 36
LiveAudio == 1

\* ------------------------------------------------------- arithmetic helpers
RECURSIVE Gcd(_, _)
Gcd(a, b) == IF b = 0 THEN a ELSE Gcd(b, a % b)

RECURSIVE LcmUpTo(_)
LcmUpTo(n) == IF n <= 1 THEN 1 ELSE (LcmUpTo(n - 1) * n) \div Gcd(LcmUpTo(n - 1), n)

MaxOf(a, b) == IF a >= b THEN a ELSE b
MinOf(a, b) == IF a <= b THEN a ELSE b

\* ticks per percent: a multiple of 10 and of every divisor the code uses
PerCent == 10 * LcmUpTo(MaxOf(MaxAudio, MaxBytes))

RECURSIVE SumSeq(_)
SumSeq(s) == IF s = <<>> THEN 0 ELSE Head(s) + SumSeq(Tail(s))

\* ------------------------------------------------------------- input sets
JobId == "j1"
OtherId == "j2"
Ids == {JobId, OtherId}

\* callback functions a client of the Job Store can pass to subscribe
Callbacks == {"f", "g"}

\* percentages an encode task can report from its progress events
TaskPercents == {1, 100}

\* language tags of probed audio streams, as character sequences
Languages == { <<"j", "a">>, <<"p", "t", "-", "B", "R">> }

\* characters matched by /[a-z0-9]/i among those the language tags use
AlnumChars == {"j", "a", "p", "t", "B", "R", "e", "n", "u", "d"}

\* NAME of a track: the stream's title, or "Audio <n>" when it has none
AudioName(n) == <<"Audio", n>>
TrackNames == { <<"Japanese">>, AudioName(1) }

\* the language tags of a probed file's audio streams, in stream order:
\* equal tags can repeat; of two lists that differ only in the order of
\* different tags the one with the shorter tags first is taken
TrackLists ==
    { langs \in UNION { [1..n -> Languages] : n \in 0..MaxAudio } :
        \A i, j \in 1..Len(langs) : i < j => Len(langs[i]) <= Len(langs[j]) }

Terminal == {"ready", "error", "cancelled"}

\* maxAge of the cleanup, in hours
maxAge == 24

\* hours that pass between two observations of the clock
TickHours == {12}

VARIABLES
    jobs,          \* JobManager.jobs: id -> job record (field name -> value)
    pc,            \* position of processVideo
    thrown,        \* message of the error processVideo rejected with, or "none"
    caught,        \* processVideo's catch block: how the removal of the output
                   \* directory went, and whether the directory was there when
                   \* the error was recorded on the job
    dl,            \* DownloadService.download: request/stream state
    audioTracks,   \* processVideo's audioTracks (built from the probe)
    conv,          \* convertToHLS closure: progress variables and task states
    dirExists,     \* the job's output directory exists
    files,         \* names of the files inside the output directory
    manifest,      \* text of master.m3u8 as a sequence of entries
    lastCancel,    \* return value of the last cancelJob call
    statusTrace,   \* distinct consecutive status values of the job, kept
                   \* until cancelJob is first called on it (then <<>>)
    cancelSeen,    \* cancelJob has been called on the job
    cancelledAt,   \* while the job is cancelled: the status it had before
    sse,           \* one GET /progress/:jobId connection: response state, close
                   \* timer, and what its consumer has received
    agg,           \* Progress Aggregator exercised on its own: inputs, result
    subscribers,   \* JobManager.subscribers: id -> callbacks in insertion order
    handles,       \* unsubscribe functions returned so far: id, callback, calls
    issued,        \* ids createJob has handed out to a client (uuids: never twice)
    ret,           \* the last Job Store call of a client: arguments and outcome
    clock,         \* Date.now() in hours since the process started
    mf,            \* PlaylistGenerator exercised on its own: tracks, output of
                   \* the first call, output of the second call
    task,          \* one encode task exercised on its own: the probe's fileInfo,
                   \* the chosen video options, lastPercent, the values passed
                   \* to onProgress, and how the task settled
    poll,          \* the web client's polling fallback (StreamApp.pollJobStatus)
    conversions    \* the jobs Map of POST /api/convert (one job) and the
                   \* convertToHLS call the route started for it

vars == << jobs, pc, thrown, caught, dl, audioTracks, conv, dirExists, files, manifest,
           lastCancel, statusTrace, cancelSeen, cancelledAt, sse, agg,
           subscribers, handles, issued, ret, clock, mf, task, poll,
                    conversions >>

\* state of the Job Store's subscriber registry and of the stand-alone drivers
apiVars == << subscribers, handles, issued, ret, clock, mf, task, poll,
                    conversions >>

pipelineVars == << jobs, pc, thrown, caught, dl, audioTracks, conv, dirExists, files,
                   manifest, lastCancel, statusTrace, cancelSeen, cancelledAt,
                   sse >>

\* ------------------------------------------------------------ Job Store
\* Object.assign(job, updates): fields of updates overwrite or extend job
ObjectAssign(job, updates) ==
    [f \in (DOMAIN job) \cup (DOMAIN updates) |->
        IF f \in DOMAIN updates THEN updates[f] ELSE job[f]]

createJob(js, id, now) ==
    [i \in (DOMAIN js) \cup {id} |->
        IF i = id
        THEN [status |-> "created", progress |-> 0, createdAt |-> now]
        ELSE js[i]]

getJob(js, id) == IF id \in DOMAIN js THEN js[id] ELSE "null"

\* variant: updateJob stores the fields under an id it does not know
updateJob_upsert(js, id, updates) ==
    [i \in (DOMAIN js) \cup {id} |->
        IF i = id
        THEN (IF id \in DOMAIN js THEN ObjectAssign(js[id], updates) ELSE updates)
        ELSE js[i]]

updateJob(js, id, updates) ==
    IF id \notin DOMAIN js THEN js
    ELSE [js EXCEPT ![id] = ObjectAssign(@, updates)]

cancelJob(js, id) ==
    IF id \notin DOMAIN js THEN js
    ELSE [js EXCEPT ![id] = ObjectAssign(@, [status |-> "cancelled"])]

cancelJobReturn(js, id) == id \in DOMAIN js

isCancelled(js, id) == id \in DOMAIN js /\ js[id].status = "cancelled"

\* ------------------------------------------- Job Store: subscriptions
\* this.subscribers is a Map from id to a Set of callbacks; a Set holds a
\* callback once and iterates in insertion order, so it is a sequence
\* without repetitions here
SubsOf(subs, id) == IF id \in DOMAIN subs THEN subs[id] ELSE <<>>
InSeq(x, sq) == \E i \in 1..Len(sq) : sq[i] = x
SeqWithout(sq, x) == SelectSeq(sq, LAMBDA y : y # x)

\* subscribe: subscribers.get(id).add(callback), the Set created if absent
subscribe(subs, id, callback) ==
    LET cur == SubsOf(subs, id)
        new == IF InSeq(callback, cur) THEN cur ELSE Append(cur, callback)
    IN  [i \in (DOMAIN subs) \cup {id} |-> IF i = id THEN new ELSE subs[i]]

\* the function returned by subscribe(id, callback): delete the callback
\* from the Set of the id, delete the Set when it becomes empty
unsubscribe(subs, id, callback) ==
    IF id \notin DOMAIN subs THEN subs
    ELSE LET rest == SeqWithout(subs[id], callback)
         IN  IF rest = <<>>
             THEN [i \in (DOMAIN subs) \ {id} |-> subs[i]]
             ELSE [subs EXCEPT ![id] = rest]

\* what a call hands back to its caller
ValNull == [kind |-> "null"]
ValJob(job) == [kind |-> "job", job |-> job]
ValBool(b) == [kind |-> "bool", bool |-> b]
ValThrew == [kind |-> "threw"]

\* variant: forEach without the try/catch around the callback
notifySubscribers_nocatch(subs, id, data, throwers) ==
    LET sq == SubsOf(subs, id)
        bad == {i \in 1..Len(sq) : sq[i] \in throwers}
        stop == IF bad = {} THEN Len(sq)
                ELSE CHOOSE i \in bad : \A k \in bad : i <= k
    IN  [ calls |-> [i \in 1..stop |-> [callback |-> sq[i], data |-> data]],
          threw |-> (bad # {}) ]

\* notifySubscribers(id, data): every callback of the id is called once with
\* data, in insertion order; what a callback throws (throwers: the callbacks
\* that throw in this call) is caught and logged, and the loop goes on
notifySubscribers(subs, id, data, throwers) ==
    LET sq == SubsOf(subs, id)
    IN  [ calls |-> [i \in 1..Len(sq) |-> [callback |-> sq[i], data |-> data]],
          threw |-> FALSE ]

\* variant: subscribers are notified before the fields are assigned
updateJobCall_stale(js, subs, id, updates, throwers) ==
    LET js2 == updateJob(js, id, updates)
    IN  IF id \notin DOMAIN js2
        THEN [jobs |-> js2, value |-> ValNull, calls |-> <<>>, threw |-> FALSE]
        ELSE LET n == notifySubscribers(subs, id, js[id], throwers)
             IN  [ jobs |-> js2,
                   value |-> IF n.threw THEN ValThrew ELSE ValJob(js2[id]),
                   calls |-> n.calls, threw |-> n.threw ]

\* one whole updateJob call: the store after it, what it returns, the
\* callback invocations it made, and whether an exception left it
updateJobCall(js, subs, id, updates, throwers) ==
    LET js2 == updateJob(js, id, updates)
    IN  IF id \notin DOMAIN js2
        THEN [jobs |-> js2, value |-> ValNull, calls |-> <<>>, threw |-> FALSE]
        ELSE LET n == notifySubscribers(subs, id, js2[id], throwers)
             IN  [ jobs |-> js2,
                   value |-> IF n.threw THEN ValThrew ELSE ValJob(js2[id]),
                   calls |-> n.calls, threw |-> n.threw ]

\* one whole cancelJob call
cancelJobCall(js, subs, id, throwers) ==
    LET js2 == cancelJob(js, id)
    IN  IF id \notin DOMAIN js2
        THEN [jobs |-> js2, value |-> ValBool(FALSE), calls |-> <<>>,
              threw |-> FALSE]
        ELSE LET n == notifySubscribers(subs, id, js2[id], throwers)
             IN  [ jobs |-> js2,
                   value |-> IF n.threw THEN ValThrew ELSE ValBool(TRUE),
                   calls |-> n.calls, threw |-> n.threw ]

\* variant: the cleanup deletes old jobs and leaves their subscriptions
sweep_keepSubs(js, subs, now) ==
    LET old == {id \in DOMAIN js : now - js[id].createdAt > maxAge}
    IN  [ jobs |-> [id \in (DOMAIN js) \ old |-> js[id]],
          subscribers |-> subs ]

\* the callback of startCleanup's setInterval: jobs older than maxAge are
\* deleted from this.jobs, and their ids from this.subscribers
sweep(js, subs, now) ==
    LET old == {id \in DOMAIN js : now - js[id].createdAt > maxAge}
    IN  [ jobs |-> [id \in (DOMAIN js) \ old |-> js[id]],
          subscribers |-> [id \in (DOMAIN subs) \ old |-> subs[id]] ]

\* --------------------------------------------- observation of store calls
StatusOf(js) == IF JobId \in DOMAIN js THEN js[JobId].status ELSE "none"
ProgressOf(js) == IF JobId \in DOMAIN js THEN js[JobId].progress ELSE 0

CallRec(op, pre, post) ==
    [ op |-> op,
      preStatus |-> StatusOf(pre), postStatus |-> StatusOf(post),
      preProgress |-> ProgressOf(pre), postProgress |-> ProgressOf(post),
      same |-> (pre = post) ]

RECURSIVE Observe(_, _)
Observe(trace, cs) ==
    IF cs = <<>> THEN trace
    ELSE Observe(IF trace # <<>> /\ trace[Len(trace)] = Head(cs).postStatus
                 THEN trace ELSE Append(trace, Head(cs).postStatus),
                 Tail(cs))

\* a store state together with the calls that produced it
St(js, cs) == [jobs |-> js, calls |-> cs]

DoUpdate(st, updates) ==
    LET js2 == updateJob(st.jobs, JobId, updates)
    IN  St(js2, Append(st.calls, CallRec("updateJob", st.jobs, js2)))


\* ------------------------------------------------- Progress Aggregator
\* variant: the weights of the sequential encoder (video 50, audio 40)
calculateTotalProgress_oldWeights(videoProgress, audioProgressMap, audioTracksLength) ==
    LET audioCount == IF audioTracksLength = 0 THEN 1 ELSE audioTracksLength
        audioTotal == SumSeq(audioProgressMap)
        avgAudioProgress == (audioTotal * PerCent) \div audioCount
    IN  ((videoProgress * PerCent * 5) \div 10) + ((avgAudioProgress * 4) \div 10)

\* variant: the tasks' weights add up to 100 (video 60, audio 40)
calculateTotalProgress_full(videoProgress, audioProgressMap, audioTracksLength) ==
    LET audioCount == IF audioTracksLength = 0 THEN 1 ELSE audioTracksLength
        audioTotal == SumSeq(audioProgressMap)
        avgAudioProgress == (audioTotal * PerCent) \div audioCount
    IN  ((videoProgress * PerCent * 6) \div 10) + ((avgAudioProgress * 4) \div 10)

\* variant: with no audio track the audio weight is given to the video
calculateTotalProgress_fold(videoProgress, audioProgressMap, audioTracksLength) ==
    IF audioTracksLength = 0
    THEN (videoProgress * PerCent * 9) \div 10
    ELSE ((videoProgress * PerCent * 6) \div 10)
         + ((((SumSeq(audioProgressMap) * PerCent) \div audioTracksLength) * 3) \div 10)

\* calculateTotalProgress: videoProgress and the map's values in percent,
\* audioTracksLength = audioTracks.length; the result in ticks
calculateTotalProgress(videoProgress, audioProgressMap, audioTracksLength) ==
    LET audioCount == IF audioTracksLength = 0 THEN 1 ELSE audioTracksLength
        audioTotal == SumSeq(audioProgressMap)
        avgAudioProgress == IF audioCount > 0
                            THEN (audioTotal * PerCent) \div audioCount
                            ELSE 0
    IN  ((videoProgress * PerCent * 6) \div 10) + ((avgAudioProgress * 3) \div 10)

\* variant: reportProgress without the comparison with the last value
reportProgress_always(lastReportedProgress, progress) ==
    LET clamped == MinOf(MaxOf(progress, 0), 100 * PerCent)
    IN  [ emit |-> TRUE, value |-> clamped ]

\* reportProgress: clamp to [0,100]; report only a rise of more than 0.5
reportProgress(lastReportedProgress, progress) ==
    LET clamped == MinOf(MaxOf(progress, 0), 100 * PerCent)
    IN  [ emit |-> clamped > lastReportedProgress + (PerCent \div 2),
          value |-> clamped ]

\* --------------------------------------------------- Manifest Assembler
\* track.language.replace(/[^a-z0-9]/gi, '_') in the encoder
\* variant: the replacement without the i flag (capitals replaced too)
FF_safeLanguage_lower(language) ==
    [i \in 1..Len(language) |->
        IF language[i] \in AlnumChars \ {"B", "R"} THEN language[i] ELSE "_"]

FF_safeLanguage(language) ==
    [i \in 1..Len(language) |->
        IF language[i] \in AlnumChars THEN language[i] ELSE "_"]

\* variant: the language tag used as it is
PG_safeLanguage_raw(language) == language

\* the same replacement as written in the playlist generator
PG_safeLanguage(language) ==
    [i \in 1..Len(language) |->
        IF language[i] \in AlnumChars THEN language[i] ELSE "_"]

AudioPlaylistName(slug) == <<"audio_">> \o slug \o <<".m3u8">>
VideoPlaylistName == <<"video.m3u8">>
MasterName == <<"master.m3u8">>
InputName == <<"input">>

\* variant: AUTOSELECT follows the default flag
generateMaster_autoselect(videoPlaylist, tracks) ==
    [i \in 1..(Len(tracks) + 1) |->
        IF i <= Len(tracks)
        THEN [ tag |-> "EXT-X-MEDIA",
               name |-> tracks[i].name,
               language |-> tracks[i].language,
               default |-> IF tracks[i].default THEN "YES" ELSE "NO",
               autoselect |-> IF tracks[i].default THEN "YES" ELSE "NO",
               uri |-> AudioPlaylistName(PG_safeLanguage(tracks[i].language)) ]
        ELSE [ tag |-> "EXT-X-STREAM-INF", audio |-> "audio",
               uri |-> videoPlaylist ]]

\* variant: the stream entry carries the time of the call
generateMaster_stamped(videoPlaylist, tracks) ==
    [i \in 1..(Len(tracks) + 1) |->
        IF i <= Len(tracks)
        THEN [ tag |-> "EXT-X-MEDIA",
               name |-> tracks[i].name,
               language |-> tracks[i].language,
               default |-> IF tracks[i].default THEN "YES" ELSE "NO",
               autoselect |-> "YES",
               uri |-> AudioPlaylistName(PG_safeLanguage(tracks[i].language)) ]
        ELSE [ tag |-> "EXT-X-STREAM-INF", audio |-> "audio",
               uri |-> videoPlaylist, at |-> clock ]]

generateMaster(videoPlaylist, tracks) ==
    [i \in 1..(Len(tracks) + 1) |->
        IF i <= Len(tracks)
        THEN [ tag |-> "EXT-X-MEDIA",
               name |-> tracks[i].name,
               language |-> tracks[i].language,
               default |-> IF tracks[i].default THEN "YES" ELSE "NO",
               autoselect |-> "YES",
               uri |-> AudioPlaylistName(PG_safeLanguage(tracks[i].language)) ]
        ELSE [ tag |-> "EXT-X-STREAM-INF", audio |-> "audio",
               uri |-> videoPlaylist ]]

\* ------------------------------------------- update objects of stream.js
AnalyzingUpdates == [status |-> "analyzing"]
AnalyzedUpdates ==
    [status |-> "analyzed", fileInfo |-> {"name", "size", "contentType"}]
DownloadingUpdates(percent) ==
    [status |-> "downloading", progress |-> percent,
     speed |-> "speed", eta |-> "eta"]
DownloadedUpdates == [status |-> "downloaded"]
ProbedUpdates ==
    [fileInfo |-> {"name", "size", "duration", "resolution", "audioTracks"}]
ConvertingUpdates(progress) == [status |-> "converting", progress |-> progress]
\* variant: the ready update without the stream URL
ReadyUpdates_noUrl ==
    [status |-> "ready", originalUrl |-> "url", fileName |-> "name"]

ReadyUpdates ==
    [status |-> "ready", streamUrl |-> "/hls/j1/master.m3u8",
     originalUrl |-> "url", fileName |-> "name"]
ErrorUpdates(message) ==
    [status |-> "error", message |-> message, step |-> "analyze"]

\* audioTracks = probeInfo.audio.map(...)
MakeAudioTracks(langs) ==
    [i \in 1..Len(langs) |->
        [index |-> i - 1, language |-> langs[i], name |-> AudioName(i),
         default |-> (i = 1)]]

\* variant: onProgress without the isCancelled test
OnConvertProgress_unguarded(st, progress) ==
    DoUpdate(st, ConvertingUpdates(progress))

\* onProgress passed to convertToHLS by processVideo
OnConvertProgress(st, progress) ==
    IF ~isCancelled(st.jobs, JobId)
    THEN DoUpdate(st, ConvertingUpdates(progress))
    ELSE st

\* one reportProgress call inside convertToHLS, forwarded to processVideo
Report(c, progress) ==
    LET r == reportProgress(c.last, progress)
    IN  IF r.emit
        THEN [st |-> OnConvertProgress(c.st, r.value), last |-> r.value,
              strict |-> (c.strict /\ r.value > c.last)]
        ELSE c

\* ----------------------------------------------------------- state helpers
NoDownload == [stage |-> "none", totalSize |-> 0, downloadedSize |-> 0]
NoConv ==
    [lastReportedProgress |-> 0, videoProgress |-> 0, audioProgressMap |-> <<>>,
     video |-> "idle", audio |-> <<>>, atWrite |-> -1, stops |-> {},
     strict |-> TRUE]
NoAgg == [video |-> 0, audio |-> <<>>, result |-> -1]

\* ------------------------------------------ GET /progress/:jobId (SSE)
\* the callback the route passes to subscribe
SseId == "sse"

\* state: "none" before the request, "open" while the response can be
\* written, "ended" after res.end(), "closed" after the client went away.
\* timer: a setTimeout that will call res.end() is pending (several pending
\* timers act as one: res.end() after the first does nothing).
\* terminals, after: what the consumer has received so far: the number of
\* messages with a terminal status (counted up to 2), and whether any
\* message arrived after one with a terminal status.
NoSse == [state |-> "none", timer |-> FALSE, terminals |-> 0, after |-> FALSE]

\* res.write of a job with this status: received while the response is open
SseWrite(s, status) ==
    IF s.state = "open"
    THEN [s EXCEPT !.after = (@ \/ s.terminals >= 1),
                   !.terminals = IF status \in Terminal
                                 THEN MinOf(@ + 1, 2) ELSE @]
    ELSE s

\* the subscriber callback: write the job, and on ready or error schedule
\* res.end() one second later
SseCallback(s, status) ==
    LET w == SseWrite(s, status)
    IN  IF status \in {"ready", "error"} /\ s.state = "open"
        THEN [w EXCEPT !.timer = TRUE]
        ELSE w

\* the notifications of a sequence of store calls, applied to the connection
RECURSIVE DeliverAll(_, _, _)
DeliverAll(s, subs, cs) ==
    IF cs = <<>> THEN s
    ELSE LET c == Head(cs)
             notified == /\ c.op \in {"updateJob", "cancelJob"}
                         /\ c.postStatus # "none"
                         /\ InSeq(SseId, SubsOf(subs, JobId))
         IN  DeliverAll(IF notified THEN SseCallback(s, c.postStatus) ELSE s,
                        subs, Tail(cs))

Commit(st) ==
    /\ jobs' = st.jobs
    /\ sse' = DeliverAll(sse, subscribers, st.calls)
    /\ statusTrace' = IF cancelSeen THEN <<>> ELSE Observe(statusTrace, st.calls)
    /\ cancelledAt' = IF StatusOf(st.jobs) = "cancelled" THEN cancelledAt
                      ELSE "none"

NoCaught == [rm |-> "none", dirAtError |-> FALSE]

\* the catch block of processVideo: existsSync, then rmSync, which either
\* removes the directory with everything in it or throws (rmThrows) and
\* leaves it; the inner try/catch swallows that, and the stage error is
\* thrown again
catchBlock(dir, fs, text, rmThrows) ==
    IF ~dir THEN [dir |-> FALSE, files |-> fs, manifest |-> text, rm |-> "absent"]
    ELSE IF rmThrows
         THEN [dir |-> TRUE, files |-> fs, manifest |-> text, rm |-> "threw"]
         ELSE [dir |-> FALSE, files |-> {}, manifest |-> <<>>, rm |-> "removed"]

\* variant: the job is set to error before the catch block runs
Fail_recordFirst(st, message) ==
    \E rmThrows \in (IF dirExists THEN BOOLEAN ELSE {FALSE}) :
        LET c == catchBlock(dirExists, files, manifest, rmThrows)
        IN  /\ pc' = "failed"
            /\ thrown' = message
            /\ dirExists' = c.dir
            /\ files' = c.files
            /\ manifest' = c.manifest
            /\ caught' = [rm |-> c.rm, dirAtError |-> dirExists]
            /\ Commit(DoUpdate(st, ErrorUpdates(message)))

\* processVideo's catch block followed by the catch of POST /start (the
\* rejection handler runs as a microtask: nothing comes between them):
\* the output directory is removed, then the job is set to error
Fail(st, message) ==
    \E rmThrows \in (IF dirExists THEN BOOLEAN ELSE {FALSE}) :
        LET c == catchBlock(dirExists, files, manifest, rmThrows)
        IN  /\ pc' = "failed"
            /\ thrown' = message
            /\ dirExists' = c.dir
            /\ files' = c.files
            /\ manifest' = c.manifest
            /\ caught' = [rm |-> c.rm, dirAtError |-> c.dir]
            /\ Commit(DoUpdate(st, ErrorUpdates(message)))

PipelineInit ==
    /\ jobs = << >>
    /\ pc = "idle"
    /\ thrown = "none"
    /\ caught = NoCaught
    /\ dl = NoDownload
    /\ audioTracks = <<>>
    /\ conv = NoConv
    /\ dirExists = FALSE
    /\ files = {}
    /\ manifest = <<>>
    /\ lastCancel = FALSE
    /\ statusTrace = <<>>
    /\ cancelSeen = FALSE
    /\ cancelledAt = "none"
    /\ sse = NoSse

NoRet == [op |-> "none"]

\* no task created, no polling started, no POST /api/convert received
NoTask == [state |-> "none"]
NoPoll == [state |-> "off", seen |-> "none"]
NoConversions ==
    [run |-> "none", status |-> "none", progress |-> 0,
     lastReportedProgress |-> 0, videoProgress |-> 0, audioProgressMap |-> <<>>,
     video |-> "idle", audio |-> <<>>, master |-> FALSE]
NoMf == [tracks |-> <<>>, out |-> <<>>, again |-> <<>>]

StoreInit ==
    /\ subscribers = << >>
    /\ handles = <<>>
    /\ issued = {}
    /\ ret = NoRet
    /\ clock = 0

ApiInit ==
    /\ StoreInit
    /\ mf = NoMf
    /\ task = NoTask
    /\ poll = NoPoll
    /\ conversions = NoConversions

Init == PipelineInit /\ agg = NoAgg /\ ApiInit

\* ------------------------------------------------------- POST /start
Start ==
    /\ pc = "idle"
    /\ JobId \notin DOMAIN jobs
    /\ LET js1 == createJob(jobs, JobId, clock)
           st0 == St(js1, << CallRec("createJob", jobs, js1) >>)
       IN  Commit(DoUpdate(st0, AnalyzingUpdates))
    /\ pc' = "analyze"
    /\ UNCHANGED << thrown, caught, dl, audioTracks, conv, dirExists, files, manifest,
                    lastCancel, cancelSeen, agg, apiVars >>

\* ------------------------------------------------ POST /cancel/:jobId
Cancel ==
    /\ jobs' = cancelJob(jobs, JobId)
    /\ sse' = DeliverAll(sse, subscribers,
                         << CallRec("cancelJob", jobs, cancelJob(jobs, JobId)) >>)
    /\ lastCancel' = cancelJobReturn(jobs, JobId)
    /\ cancelSeen' = (cancelSeen \/ JobId \in DOMAIN jobs)
    /\ statusTrace' = <<>>
    /\ cancelledAt' = IF StatusOf(jobs) \in {"cancelled", "none"}
                      THEN cancelledAt ELSE StatusOf(jobs)
    /\ UNCHANGED << pc, thrown, caught, dl, audioTracks, conv, dirExists, files,
                    manifest, agg, apiVars >>

\* ------------------------------------------- processVideo: analyze stage
AnalyzeDone ==
    /\ pc = "analyze"
    /\ LET st1 == DoUpdate(St(jobs, <<>>), AnalyzedUpdates)
       IN  IF isCancelled(st1.jobs, JobId)
           THEN /\ Fail(st1, "Job cancelled")
                /\ UNCHANGED dl
           ELSE /\ Commit(st1)
                /\ dirExists' = TRUE
                /\ dl' = [NoDownload EXCEPT !.stage = "requested"]
                /\ pc' = "download"
                /\ UNCHANGED << thrown, caught, files, manifest >>
    /\ UNCHANGED << audioTracks, conv, lastCancel, cancelSeen, agg, apiVars >>

AnalyzeFail ==
    /\ pc = "analyze"
    /\ Fail(St(jobs, <<>>), "Failed to analyze URL")
    /\ UNCHANGED << dl, audioTracks, conv, lastCancel, cancelSeen, agg, apiVars >>


\* ------------------------------------------ DownloadService.download
\* percent handed to onProgress by the 'data' handler, in ticks
DownloadPercent(downloadedSize, totalSize) ==
    IF totalSize > 0 THEN (downloadedSize * 100 * PerCent) \div totalSize ELSE 0

\* response with status 200: totalSize from content-length (0 when absent),
\* the write stream creates the input file.  A 3xx response only re-issues
\* the request for the new location and leaves the stage at "requested".
DownloadResponse ==
    /\ dl.stage = "requested"
    /\ \E totalSize \in 0..MaxBytes :
          dl' = [stage |-> "streaming", totalSize |-> totalSize,
                 downloadedSize |-> 0]
    /\ files' = IF dirExists THEN files \cup {InputName} ELSE files
    /\ UNCHANGED << jobs, pc, thrown, caught, audioTracks, conv, dirExists, manifest,
                    lastCancel, statusTrace, cancelSeen, cancelledAt, sse, agg,
                    apiVars >>

\* response with a status other than 200 (and no redirect): reject
DownloadHttpError ==
    /\ dl.stage = "requested"
    /\ dl' = [NoDownload EXCEPT !.stage = "stopped"]
    /\ Fail(St(jobs, <<>>), "Download failed")
    /\ UNCHANGED << audioTracks, conv, lastCancel, cancelSeen, agg, apiVars >>

\* res.on('data'): count the chunk; every 500ms call onProgress, which is
\* processVideo's callback updating the job.  The handler counts whatever
\* arrives: nothing in it compares downloadedSize with totalSize.  The handler stays attached
\* after a write-stream error has rejected the promise (stage "orphaned").
DownloadData ==
    /\ dl.stage \in {"streaming", "orphaned"}
    /\ \E len \in 1..2, timeUp \in BOOLEAN :
          LET downloadedSize == dl.downloadedSize + len
              st0 == St(jobs, <<>>)
          IN  /\ downloadedSize <= MaxBytes
              /\ dl' = [dl EXCEPT !.downloadedSize = downloadedSize]
              /\ Commit(IF timeUp
                        THEN DoUpdate(st0, DownloadingUpdates(
                                 DownloadPercent(downloadedSize, dl.totalSize)))
                        ELSE st0)
    /\ UNCHANGED << pc, thrown, caught, audioTracks, conv, dirExists, files, manifest,
                    lastCancel, cancelSeen, agg, apiVars >>

\* file.on('finish'): final onProgress(100), resolve; processVideo resumes
\* in the same turn: cancellation checkpoint, 'downloaded', probeFile
DownloadFinish ==
    /\ dl.stage = "streaming"
    /\ dl.totalSize = 0 \/ dl.downloadedSize >= dl.totalSize
    /\ dl' = [NoDownload EXCEPT !.stage = "finished"]
    /\ LET st1 == DoUpdate(St(jobs, <<>>), DownloadingUpdates(100 * PerCent))
       IN  IF isCancelled(st1.jobs, JobId)
           THEN Fail(st1, "Job cancelled")
           ELSE /\ Commit(DoUpdate(st1, DownloadedUpdates))
                /\ pc' = "probe"
                /\ UNCHANGED << thrown, caught, dirExists, files, manifest >>
    /\ UNCHANGED << audioTracks, conv, lastCancel, cancelSeen, agg, apiVars >>

\* req.on('error'): the transfer stops and the promise is rejected
DownloadReqError ==
    /\ dl.stage \in {"requested", "streaming"}
    /\ dl' = [NoDownload EXCEPT !.stage = "stopped"]
    /\ Fail(St(jobs, <<>>), "Download failed")
    /\ UNCHANGED << audioTracks, conv, lastCancel, cancelSeen, agg, apiVars >>

\* file.on('error'): the promise is rejected, the response keeps flowing
DownloadFileError ==
    /\ dl.stage = "streaming"
    /\ dl' = [dl EXCEPT !.stage = "orphaned"]
    /\ Fail(St(jobs, <<>>), "write failed")
    /\ UNCHANGED << audioTracks, conv, lastCancel, cancelSeen, agg, apiVars >>

\* -------------------------------------------- processVideo: probe stage
\* probeFile resolves: fileInfo update, audioTracks built, convertToHLS
\* entered (directories made, its own probeFile awaited)
ProbeDone ==
    /\ pc = "probe"
    /\ \E langs \in TrackLists : audioTracks' = MakeAudioTracks(langs)
    /\ Commit(DoUpdate(St(jobs, <<>>), ProbedUpdates))
    /\ dirExists' = TRUE
    /\ pc' = "convProbe"
    /\ UNCHANGED << thrown, caught, dl, conv, files, manifest, lastCancel, cancelSeen, agg, apiVars >>

ProbeFail ==
    /\ pc = "probe"
    /\ Fail(St(jobs, <<>>), "probe failed")
    /\ UNCHANGED << dl, audioTracks, conv, lastCancel, cancelSeen, agg, apiVars >>

\* variant: the audio tasks wait for the video task
ConvProbeDone_sequential ==
    /\ pc = "convProbe"
    /\ conv' = [ lastReportedProgress |-> 0,
                 videoProgress |-> 0,
                 audioProgressMap |-> [i \in 1..Len(audioTracks) |-> 0],
                 video |-> "running",
                 audio |-> [i \in 1..Len(audioTracks) |-> "waiting"],
                 atWrite |-> -1, stops |-> {},
                 strict |-> TRUE ]
    /\ pc' = "convert"
    /\ UNCHANGED << jobs, thrown, caught, dl, audioTracks, dirExists, files, manifest,
                    lastCancel, statusTrace, cancelSeen, cancelledAt, sse, agg,
                    apiVars >>

\* ------------------------------------------------------- convertToHLS
\* the probe inside convertToHLS resolves: the video task and one audio
\* task per track are started, every audioProgressMap entry set to 0
\* (stops: the tasks a stop request has been sent to; no statement of
\* convertToHLS, of the task functions or of processVideo sends one;
\* strict: every value passed to onProgress so far was above the one
\* passed before it)
ConvProbeDone ==
    /\ pc = "convProbe"
    /\ conv' = [ lastReportedProgress |-> 0,
                 videoProgress |-> 0,
                 audioProgressMap |-> [i \in 1..Len(audioTracks) |-> 0],
                 video |-> "running",
                 audio |-> [i \in 1..Len(audioTracks) |-> "running"],
                 atWrite |-> -1, stops |-> {},
                 strict |-> TRUE ]
    /\ pc' = "convert"
    /\ UNCHANGED << jobs, thrown, caught, dl, audioTracks, dirExists, files, manifest,
                    lastCancel, statusTrace, cancelSeen, cancelledAt, sse, agg,
                    apiVars >>

ConvProbeFail ==
    /\ pc = "convProbe"
    /\ Fail(St(jobs, <<>>), "probe failed")
    /\ UNCHANGED << dl, audioTracks, conv, lastCancel, cancelSeen, agg, apiVars >>

\* Promise.all is still pending and every task has ended
AllEnded(cv) ==
    /\ cv.video = "ended"
    /\ \A i \in 1..Len(cv.audio) : cv.audio[i] = "ended"

\* a task callback inside convertToHLS: recompute the aggregate and report
TaskReport(cv) ==
    Report([st |-> St(jobs, <<>>), last |-> conv.lastReportedProgress,
            strict |-> conv.strict],
           calculateTotalProgress(cv.videoProgress, cv.audioProgressMap,
                                  Len(audioTracks)))

\* variant: the final 100 reported before master.m3u8 is written
Finalize_early(cv, c, filesNow) ==
    LET c90 == Report(c, 90 * PerCent)
        c100 == Report(c90, 100 * PerCent)
    IN  /\ conv' = [cv EXCEPT !.lastReportedProgress = c100.last,
                              !.atWrite = c100.last,
                              !.strict = c100.strict]
        /\ IF isCancelled(c100.st.jobs, JobId)
           THEN Fail(c100.st, "Job cancelled")
           ELSE /\ Commit(DoUpdate(c100.st, ReadyUpdates))
                /\ manifest' = generateMaster(VideoPlaylistName, audioTracks)
                /\ files' = filesNow \cup {MasterName}
                /\ pc' = "done"
                /\ UNCHANGED << thrown, caught, dirExists >>

\* what follows await Promise.all when it resolves: reportProgress(90),
\* master.m3u8 written, reportProgress(100), return; then processVideo's
\* checkpoint and the ready update.  atWrite keeps the value last passed
\* to onProgress at the moment writeFileSync writes master.m3u8 (-1 while
\* the manifest of this run has not been written).
Finalize(cv, c, filesNow) ==
    LET c90 == Report(c, 90 * PerCent)
        c100 == Report(c90, 100 * PerCent)
    IN  /\ conv' = [cv EXCEPT !.lastReportedProgress = c100.last,
                              !.atWrite = c90.last,
                              !.strict = c100.strict]
        /\ IF isCancelled(c100.st.jobs, JobId)
           THEN Fail(c100.st, "Job cancelled")
           ELSE /\ Commit(DoUpdate(c100.st, ReadyUpdates))
                /\ manifest' = generateMaster(VideoPlaylistName, audioTracks)
                /\ files' = filesNow \cup {MasterName}
                /\ pc' = "done"
                /\ UNCHANGED << thrown, caught, dirExists >>

\* a task event that does not settle Promise.all
TaskStep(cv, c, filesNow) ==
    /\ conv' = [cv EXCEPT !.lastReportedProgress = c.last,
                          !.strict = c.strict]
    /\ Commit(c.st)
    /\ files' = filesNow
    /\ UNCHANGED << pc, thrown, caught, dirExists, manifest >>

TaskEnd(cv, filesNow) ==
    IF pc = "convert" /\ AllEnded(cv)
    THEN Finalize(cv, TaskReport(cv), filesNow)
    ELSE TaskStep(cv, TaskReport(cv), filesNow)

\* a task's 'error' event: reject; Promise.all rejects if still pending
TaskError(cv, message) ==
    /\ IF pc = "convert"
       THEN /\ Fail(St(jobs, <<>>), message)
            /\ conv' = cv
       ELSE TaskStep(cv, [st |-> St(jobs, <<>>),
                          last |-> conv.lastReportedProgress,
                          strict |-> conv.strict], files)

\* video 'progress' event with percent > lastPercent (lastPercent always
\* equals videoProgress while the task runs)
VideoProgress ==
    /\ conv.video = "running"
    /\ \E percent \in TaskPercents :
          /\ percent > conv.videoProgress
          /\ LET cv == [conv EXCEPT !.videoProgress = percent]
             IN  TaskStep(cv, TaskReport(cv), files)
    /\ UNCHANGED << dl, audioTracks, lastCancel, cancelSeen, agg, apiVars >>

VideoEnd ==
    /\ conv.video = "running"
    /\ LET cv == [conv EXCEPT !.videoProgress = 100, !.video = "ended"]
       IN  TaskEnd(cv, IF dirExists THEN files \cup {VideoPlaylistName}
                       ELSE files)
    /\ UNCHANGED << dl, audioTracks, lastCancel, cancelSeen, agg, apiVars >>

VideoError ==
    /\ conv.video = "running"
    /\ TaskError([conv EXCEPT !.video = "failed"], "Video conversion failed")
    /\ UNCHANGED << dl, audioTracks, lastCancel, cancelSeen, agg, apiVars >>

AudioProgress ==
    \E i \in 1..Len(conv.audio), percent \in TaskPercents :
        /\ conv.audio[i] = "running"
        /\ percent > conv.audioProgressMap[i]
        /\ LET cv == [conv EXCEPT !.audioProgressMap[i] = percent]
           IN  TaskStep(cv, TaskReport(cv), files)
        /\ UNCHANGED << dl, audioTracks, lastCancel, cancelSeen, agg, apiVars >>

AudioEnd ==
    \E i \in 1..Len(conv.audio) :
        /\ conv.audio[i] = "running"
        /\ LET cv == [conv EXCEPT !.audioProgressMap[i] = 100,
                                  !.audio[i] = "ended"]
               name == AudioPlaylistName(FF_safeLanguage(audioTracks[i].language))
           IN  TaskEnd(cv, IF dirExists THEN files \cup {name} ELSE files)
        /\ UNCHANGED << dl, audioTracks, lastCancel, cancelSeen, agg, apiVars >>

AudioError ==
    \E i \in 1..Len(conv.audio) :
        /\ conv.audio[i] = "running"
        /\ TaskError([conv EXCEPT !.audio[i] = "failed"], "Audio failed")
        /\ UNCHANGED << dl, audioTracks, lastCancel, cancelSeen, agg, apiVars >>

\* ------------------------------------------------------- specification
Next ==
    \/ Start
    \/ Cancel
    \/ AnalyzeDone
    \/ AnalyzeFail
    \/ DownloadResponse
    \/ DownloadHttpError
    \/ DownloadData
    \/ DownloadFinish
    \/ DownloadReqError
    \/ DownloadFileError
    \/ ProbeDone
    \/ ProbeFail
    \/ ConvProbeDone
    \/ ConvProbeFail
    \/ VideoProgress
    \/ VideoEnd
    \/ VideoError
    \/ AudioProgress
    \/ AudioEnd
    \/ AudioError

Spec == Init /\ [][Next]_vars


\* ------------------------------------ the Progress Aggregator on its own
AggAudioValues == {0, 20, 60, 100}
AggAudioLists == UNION { [1..n -> AggAudioValues] : n \in 0..MaxAudio }

InitAgg ==
    /\ PipelineInit
    /\ ApiInit
    /\ agg \in [video : 0..100, audio : AggAudioLists, result : {-1}]

\* one call of calculateTotalProgress on the chosen inputs
Aggregate ==
    /\ agg.result = -1
    /\ agg' = [agg EXCEPT !.result =
                  calculateTotalProgress(agg.video, agg.audio, Len(agg.audio))]
    /\ UNCHANGED << pipelineVars, apiVars >>

NextAgg == Aggregate

SpecAgg == InitAgg /\ [][NextAgg]_vars

\* --------------------------- subscribe / unsubscribe driven by a client
\* a client calls subscribe(id, callback) and keeps the returned function
Subscribe ==
    /\ Len(handles) < MaxHandles
    /\ \E id \in Ids, callback \in Callbacks :
          /\ subscribers' = subscribe(subscribers, id, callback)
          /\ handles' = Append(handles,
                               [id |-> id, callback |-> callback, calls |-> 0])
    /\ UNCHANGED << pipelineVars, agg, issued, ret, clock, mf, task, poll,
                    conversions >>

\* a client calls one of the functions subscribe returned (at most twice)
Unsubscribe ==
    /\ \E h \in 1..Len(handles) :
          /\ handles[h].calls < 2
          /\ subscribers' = unsubscribe(subscribers, handles[h].id,
                                        handles[h].callback)
          /\ handles' = [handles EXCEPT ![h].calls = @ + 1]
    /\ UNCHANGED << pipelineVars, agg, issued, ret, clock, mf, task, poll,
                    conversions >>

NextSubs == Subscribe \/ Unsubscribe

SpecSubs == Init /\ [][NextSubs]_vars

\* ------------------------------ the Job Store driven by a client of its API
\* update objects a client passes to updateJob
StoreUpdates ==
    { [status |-> "downloading", progress |-> 50 * PerCent] }

\* callbacks that can throw when called
Throwing == {"f"}

storeRest == << pc, thrown, caught, dl, audioTracks, conv, dirExists, files, manifest,
                lastCancel, statusTrace, cancelSeen, cancelledAt, sse, agg,
                handles, mf, task, poll,
                    conversions >>

CallRet(op, id, r, throwers) ==
    [ op |-> op, id |-> id, existed |-> (id \in DOMAIN jobs),
      value |-> r.value, calls |-> r.calls, threw |-> r.threw,
      throwers |-> throwers ]

ReadRet(op, id, value) ==
    CallRet(op, id, [value |-> value, calls |-> <<>>, threw |-> FALSE], {})

StoreCreate ==
    /\ \E id \in Ids \ issued :
          /\ jobs' = createJob(jobs, id, clock)
          /\ issued' = issued \cup {id}
          /\ ret' = ReadRet("createJob", id, ValJob(jobs'[id]))
    /\ UNCHANGED << subscribers, clock, storeRest >>

StoreGet ==
    /\ \E id \in Ids : ret' = ReadRet("getJob", id, [kind |-> "got", got |-> getJob(jobs, id)])
    /\ UNCHANGED << jobs, subscribers, issued, clock, storeRest >>

StoreIsCancelled ==
    /\ \E id \in Ids : ret' = ReadRet("isCancelled", id, ValBool(isCancelled(jobs, id)))
    /\ UNCHANGED << jobs, subscribers, issued, clock, storeRest >>

StoreUpdate ==
    /\ \E id \in Ids, updates \in StoreUpdates, throwers \in SUBSET Throwing :
          LET r == updateJobCall(jobs, subscribers, id, updates, throwers)
          IN  /\ jobs' = r.jobs
              /\ ret' = CallRet("updateJob", id, r, throwers)
    /\ UNCHANGED << subscribers, issued, clock, storeRest >>

StoreCancel ==
    /\ \E id \in Ids, throwers \in SUBSET Throwing :
          LET r == cancelJobCall(jobs, subscribers, id, throwers)
          IN  /\ jobs' = r.jobs
              /\ ret' = CallRet("cancelJob", id, r, throwers)
    /\ UNCHANGED << subscribers, issued, clock, storeRest >>

StoreSubscribe ==
    /\ \E id \in Ids, callback \in Callbacks :
          /\ subscribers' = subscribe(subscribers, id, callback)
          /\ ret' = ReadRet("subscribe", id, [kind |-> "fn", callback |-> callback])
    /\ UNCHANGED << jobs, issued, clock, storeRest >>

\* the function returned for a registered callback is called
StoreUnsubscribe ==
    /\ \E id \in Ids, callback \in Callbacks :
          /\ InSeq(callback, SubsOf(subscribers, id))
          /\ subscribers' = unsubscribe(subscribers, id, callback)
          /\ ret' = ReadRet("unsubscribe", id, [kind |-> "fn", callback |-> callback])
    /\ UNCHANGED << jobs, issued, clock, storeRest >>

\* time passes
Tick ==
    /\ \E h \in TickHours :
          /\ clock + h <= MaxClock
          /\ clock' = clock + h
    /\ ret' = [op |-> "tick"]
    /\ UNCHANGED << jobs, subscribers, issued, storeRest >>

\* the hourly cleanup runs
Sweep ==
    /\ LET r == sweep(jobs, subscribers, clock)
       IN  /\ jobs' = r.jobs
           /\ subscribers' = r.subscribers
    /\ ret' = [op |-> "sweep"]
    /\ UNCHANGED << issued, clock, storeRest >>

NextStore ==
    \/ StoreCreate
    \/ StoreGet
    \/ StoreIsCancelled
    \/ StoreUpdate
    \/ StoreCancel
    \/ StoreSubscribe
    \/ StoreUnsubscribe
    \/ Tick
    \/ Sweep

SpecStore == Init /\ [][NextStore]_vars

\* --------------------------------- the pipeline with a live-update stream
\* GET /progress/:jobId: the current job is written if there is one, then
\* the callback is subscribed
OpenStream ==
    /\ sse.state = "none"
    /\ LET s1 == [sse EXCEPT !.state = "open"]
       IN  sse' = IF JobId \in DOMAIN jobs
                  THEN SseWrite(s1, jobs[JobId].status) ELSE s1
    /\ subscribers' = subscribe(subscribers, JobId, SseId)
    /\ UNCHANGED << jobs, pc, thrown, caught, dl, audioTracks, conv, dirExists, files,
                    manifest, lastCancel, statusTrace, cancelSeen, cancelledAt,
                    agg, handles, issued, ret, clock, mf, task, poll,
                    conversions >>

\* the setTimeout callback: res.end()
TimerFire ==
    /\ sse.timer
    /\ sse' = [sse EXCEPT !.timer = FALSE,
                          !.state = IF @ = "open" THEN "ended" ELSE @]
    /\ UNCHANGED << jobs, pc, thrown, caught, dl, audioTracks, conv, dirExists, files,
                    manifest, lastCancel, statusTrace, cancelSeen, cancelledAt,
                    agg, apiVars >>

\* req.on('close'): the client has gone away, unsubscribe() is called (a
\* timer still pending would call res.end() on the closed connection, to
\* no effect, and is dropped here)
ClientClose ==
    /\ sse.state \in {"open", "ended"}
    /\ sse' = [sse EXCEPT !.state = "closed", !.timer = FALSE]
    /\ subscribers' = unsubscribe(subscribers, JobId, SseId)
    /\ UNCHANGED << jobs, pc, thrown, caught, dl, audioTracks, conv, dirExists, files,
                    manifest, lastCancel, statusTrace, cancelSeen, cancelledAt,
                    agg, handles, issued, ret, clock, mf, task, poll,
                    conversions >>

\* the probe of a file with at most LiveAudio audio streams
LiveProbeDone == ProbeDone /\ Len(audioTracks') <= LiveAudio

NextLive ==
    \/ Start
    \/ Cancel
    \/ AnalyzeDone
    \/ AnalyzeFail
    \/ DownloadResponse
    \/ DownloadHttpError
    \/ DownloadData
    \/ DownloadFinish
    \/ DownloadReqError
    \/ DownloadFileError
    \/ LiveProbeDone
    \/ ProbeFail
    \/ ConvProbeDone
    \/ ConvProbeFail
    \/ VideoProgress
    \/ VideoEnd
    \/ VideoError
    \/ AudioProgress
    \/ AudioEnd
    \/ AudioError
    \/ OpenStream
    \/ TimerFire
    \/ ClientClose

SpecLive == Init /\ [][NextLive]_vars

\* the timer of setTimeout fires once it is set
SpecLiveFair == SpecLive /\ WF_vars(TimerFire)

\* every step the program can take is taken in the end: started encode
\* tasks report, end or fail, and the stages of processVideo go on
SpecLiveRun == SpecLive /\ WF_vars(NextLive)

\* ----------------------------------- the Manifest Renderer on its own
\* track lists a caller can hand to generateMaster: processVideo builds
\* them from the probe, POST /api/convert takes them from the request body
ManifestLanguages == Languages \cup { <<"e", "n">> }
ManifestTracks ==
    [language : ManifestLanguages, name : TrackNames, default : BOOLEAN]
ManifestTrackLists == UNION { [1..n -> ManifestTracks] : n \in 0..MaxAudio }

InitManifest ==
    /\ PipelineInit
    /\ agg = NoAgg
    /\ StoreInit
    /\ task = NoTask
    /\ poll = NoPoll
    /\ conversions = NoConversions
    /\ mf \in [tracks : ManifestTrackLists, out : {<<>>}, again : {<<>>}]

\* one call of generateMaster on the chosen track list
Render ==
    /\ mf.out = <<>>
    /\ mf' = [mf EXCEPT !.out = generateMaster(VideoPlaylistName, mf.tracks)]
    /\ UNCHANGED << pipelineVars, agg, subscribers, handles, issued, ret,
                    clock, task, poll, conversions >>

\* a second call of generateMaster on the same track list, whatever time
\* has passed
RenderAgain ==
    /\ mf.out # <<>>
    /\ mf.again = <<>>
    /\ mf' = [mf EXCEPT !.again = generateMaster(VideoPlaylistName, mf.tracks)]
    /\ UNCHANGED << pipelineVars, agg, subscribers, handles, issued, ret,
                    clock, task, poll, conversions >>

NextManifest == Render \/ RenderAgain \/ Tick

SpecManifest == InitManifest /\ [][NextManifest]_vars

\* ---------------------------------------------- one encode task on its own
\* convertVideoStreamOptimized / convertAudioStreamOptimized called with a
\* probe result and a duration; ffmpeg then emits progress events and
\* either 'end' or 'error'
MaxSeconds == 2
MaxEvents == 3

\* substring test of String.prototype.includes, on character sequences
Includes(str, sub) ==
    \E k \in 0..(Len(str) - Len(sub)) :
        \A i \in 1..Len(sub) : str[k + i] = sub[i]

\* codec names a probe can give ("" stands for a missing codec), and
\* String.prototype.toLowerCase on them
Codecs == {"h264", "H264", "avc1", "avc", "hevc", "vp9", ""}
toLowerCase(codec) == IF codec = "H264" THEN "h264" ELSE codec

\* pixel formats a probe can give (<<>> stands for a missing pix_fmt)
PixFmts ==
    { <<>>,
      <<"y","u","v","4","2","0","p">>,
      <<"y","u","v","4","2","0","p","1","0","l","e">>,
      <<"y","u","v","4","2","0","p","1","2","l","e">>,
      <<"y","u","v","4","2","2","p">>,
      <<"y","u","v","4","2","2","p","1","0","l","e">>,
      <<"y","u","v","j","4","2","0","p">> }

\* fileInfo.video as the task reads it: no video stream, or the first one
NoVideoStream == [present |-> FALSE, codec |-> "", pix_fmt |-> <<>>]
VideoStreams ==
    {NoVideoStream} \cup [present : {TRUE}, codec : Codecs, pix_fmt : PixFmts]

\* variant: the test of the sequential encoder (no yuv420p requirement)
canCopy_sequential(video) ==
    LET videoCodec == IF video.present THEN toLowerCase(video.codec) ELSE ""
        pixFmt == IF video.present THEN video.pix_fmt ELSE <<>>
    IN  /\ videoCodec \in {"h264", "avc1", "avc"}
        /\ ~Includes(pixFmt, <<"1", "0">>)

\* canCopy of convertVideoStreamOptimized
canCopy(video) ==
    LET videoCodec == IF video.present THEN toLowerCase(video.codec) ELSE ""
        pixFmt == IF video.present THEN video.pix_fmt ELSE <<>>
    IN  /\ videoCodec \in {"h264", "avc1", "avc"}
        /\ ~Includes(pixFmt, <<"1", "0">>)
        /\ Includes(pixFmt, <<"y","u","v","4","2","0","p">>)

\* the codec options pushed to outputOptions: '-c:v copy', or the list of
\* getVideoEncodeOptions ('-c:v libx264', ..., '-pix_fmt yuv420p', ...)
videoOptions(video) ==
    IF canCopy(video)
    THEN [codec |-> "copy", pix_fmt |-> <<>>]
    ELSE [codec |-> "libx264", pix_fmt |-> <<"y","u","v","4","2","0","p">>]

\* a 'progress' event of fluent-ffmpeg: timemark is absent, unparsable
\* ("bad": parseInt gives NaN) or a time in seconds; percent is 0 when it
\* is missing or zero (both falsy)
Timemarks ==
    [kind : {"absent", "bad"}, seconds : {0}]
        \cup [kind : {"ok"}, seconds : 0..(MaxSeconds + 1)]
ProgressEvents == [timemark : Timemarks, percent : {0, -10, 40, 250}]

\* variant: calculateProgress without Math.min
calculateProgress_uncapped(progress, totalDuration) ==
    IF progress.timemark.kind # "absent" /\ totalDuration > 0
    THEN IF progress.timemark.kind = "bad"
         THEN [nan |-> TRUE, value |-> 0]
         ELSE [nan |-> FALSE,
               value |-> (progress.timemark.seconds * 100 * PerCent) \div totalDuration]
    ELSE IF progress.percent # 0
         THEN [nan |-> FALSE, value |-> progress.percent * PerCent]
         ELSE [nan |-> FALSE, value |-> 0]

\* calculateProgress, in ticks of 1/PerCent percent; nan: the result is NaN
calculateProgress(progress, totalDuration) ==
    IF progress.timemark.kind # "absent" /\ totalDuration > 0
    THEN IF progress.timemark.kind = "bad"
         THEN [nan |-> TRUE, value |-> 0]
         ELSE [nan |-> FALSE,
               value |-> MinOf((progress.timemark.seconds * 100 * PerCent)
                                   \div totalDuration,
                               100 * PerCent)]
    ELSE IF progress.percent # 0
         THEN [nan |-> FALSE, value |-> MinOf(progress.percent * PerCent, 100 * PerCent)]
         ELSE [nan |-> FALSE, value |-> 0]

InitTask ==
    /\ PipelineInit
    /\ agg = NoAgg
    /\ StoreInit
    /\ mf = NoMf
    /\ poll = NoPoll
    /\ conversions = NoConversions
    /\ task \in [state : {"new"}, kind : {"video"}, video : VideoStreams,
                 totalDuration : 0..MaxSeconds]
               \cup [state : {"new"}, kind : {"audio"}, video : {NoVideoStream},
                     totalDuration : 0..MaxSeconds]

\* the task function is called: options chosen, lastPercent = 0, .run()
TaskCreate ==
    /\ task.state = "new"
    /\ task' = [state |-> "running", kind |-> task.kind, video |-> task.video,
                totalDuration |-> task.totalDuration,
                options |-> IF task.kind = "video" THEN videoOptions(task.video)
                            ELSE [codec |-> "aac", pix_fmt |-> <<>>],
                lastPercent |-> 0, reported |-> <<>>, events |-> 0,
                dropped |-> FALSE]
    /\ UNCHANGED << pipelineVars, agg, subscribers, handles, issued, ret,
                    clock, mf, poll, conversions >>

\* on('progress'); dropped: the last event's sample was not passed on
TaskProgressEvent ==
    /\ task.state = "running"
    /\ task.events < MaxEvents
    /\ \E progress \in ProgressEvents :
          LET percent == calculateProgress(progress, task.totalDuration)
          IN  IF ~percent.nan /\ percent.value > task.lastPercent
              THEN task' = [task EXCEPT !.lastPercent = percent.value,
                                        !.reported = Append(@, percent.value),
                                        !.events = @ + 1,
                                        !.dropped = FALSE]
              ELSE task' = [task EXCEPT !.events = @ + 1, !.dropped = TRUE]
    /\ UNCHANGED << pipelineVars, agg, subscribers, handles, issued, ret,
                    clock, mf, poll, conversions >>

\* on('end'): onProgress(100); resolve()
TaskEndEvent ==
    /\ task.state = "running"
    /\ task' = [task EXCEPT !.reported = Append(@, 100 * PerCent),
                            !.state = "resolved"]
    /\ UNCHANGED << pipelineVars, agg, subscribers, handles, issued, ret,
                    clock, mf, poll, conversions >>

\* on('error'): reject(...)
TaskErrorEvent ==
    /\ task.state = "running"
    /\ task' = [task EXCEPT !.state = "rejected"]
    /\ UNCHANGED << pipelineVars, agg, subscribers, handles, issued, ret,
                    clock, mf, poll, conversions >>

NextTask == TaskCreate \/ TaskProgressEvent \/ TaskEndEvent \/ TaskErrorEvent

SpecTask == InitTask /\ [][NextTask]_vars

\* ------------------------------------- the web client's polling fallback
\* EventSource.onerror of connectToProgress: the stream is closed and
\* pollJobStatus(jobId) is called (the client got jobId from POST /start)
StreamError ==
    /\ poll.state = "off"
    /\ JobId \in DOMAIN jobs
    /\ poll' = [poll EXCEPT !.state = "fetching"]
    /\ UNCHANGED << pipelineVars, agg, subscribers, handles, issued, ret,
                    clock, mf, task, conversions >>

\* the test pollJobStatus makes before setTimeout
PollAgain(status) == status \in {"processing", "downloading", "converting"}

\* GET /status/:jobId answers with the job; handleProgressUpdate(data);
\* then another poll is scheduled or not
PollResponse ==
    /\ poll.state = "fetching"
    /\ LET data == getJob(jobs, JobId)
       IN  poll' = [state |-> IF PollAgain(data.status) THEN "waiting" ELSE "stopped",
                    seen |-> data.status]
    /\ UNCHANGED << pipelineVars, agg, subscribers, handles, issued, ret,
                    clock, mf, task, conversions >>

\* fetch rejects (network error): the catch logs it, nothing is scheduled
PollFetchError ==
    /\ poll.state = "fetching"
    /\ poll' = [state |-> "stopped", seen |-> "fetch failed"]
    /\ UNCHANGED << pipelineVars, agg, subscribers, handles, issued, ret,
                    clock, mf, task, conversions >>

\* the timer of setTimeout(..., 1000) fires: pollJobStatus again
PollTimer ==
    /\ poll.state = "waiting"
    /\ poll' = [poll EXCEPT !.state = "fetching"]
    /\ UNCHANGED << pipelineVars, agg, subscribers, handles, issued, ret,
                    clock, mf, task, conversions >>

NextPoll ==
    \/ Start
    \/ Cancel
    \/ AnalyzeDone
    \/ AnalyzeFail
    \/ DownloadResponse
    \/ DownloadHttpError
    \/ DownloadData
    \/ DownloadFinish
    \/ DownloadReqError
    \/ DownloadFileError
    \/ LiveProbeDone
    \/ ProbeFail
    \/ ConvProbeDone
    \/ ConvProbeFail
    \/ VideoProgress
    \/ VideoEnd
    \/ VideoError
    \/ AudioProgress
    \/ AudioEnd
    \/ AudioError
    \/ StreamError
    \/ PollResponse
    \/ PollFetchError
    \/ PollTimer

SpecPoll == Init /\ [][NextPoll]_vars

\* ------------------------------------------------------ POST /api/convert
\* conversions holds the route's entry of its own jobs Map (status,
\* progress) and the closure of the convertToHLS call it started: run is
\* "probing" while probeFile is awaited, "running" while Promise.all is
\* pending, "resolved" / "rejected" once the promise convertToHLS returned
\* has settled.  The route passes inputUrl, onComplete and onError;
\* convertToHLS reads inputPath, outputDir, audioTracks and onProgress
\* only, and the route neither awaits the promise nor attaches a handler.

\* onProgress of the route: jobs.set(jobId, {status: 'processing', progress})
ConvertReport(c, progress) ==
    LET r == reportProgress(c.lastReportedProgress, progress)
    IN  IF r.emit
        THEN [c EXCEPT !.lastReportedProgress = r.value,
                       !.status = "processing",
                       !.progress = r.value]
        ELSE c

ConvertTotal(c) ==
    calculateTotalProgress(c.videoProgress, c.audioProgressMap, Len(c.audio))

\* the request body has no audioTracks (the ja/en default is used) or a
\* list of 0..MaxAudio tracks
ConvertPost ==
    /\ conversions.run = "none"
    /\ \E n \in 0..MaxAudio :
          conversions' = [NoConversions EXCEPT
                             !.run = "probing",
                             !.status = "processing",
                             !.audio = [i \in 1..n |-> "idle"]]
    /\ UNCHANGED << pipelineVars, agg, subscribers, handles, issued, ret,
                    clock, mf, task, poll >>

\* probeFile(inputPath) resolves: all tasks started
ConvertProbeDone ==
    /\ conversions.run = "probing"
    /\ conversions' = [conversions EXCEPT
                          !.run = "running",
                          !.video = "running",
                          !.audio = [i \in 1..Len(conversions.audio) |-> "running"],
                          !.audioProgressMap = [i \in 1..Len(conversions.audio) |-> 0]]
    /\ UNCHANGED << pipelineVars, agg, subscribers, handles, issued, ret,
                    clock, mf, task, poll >>

\* probeFile(inputPath) rejects (inputPath is undefined in this call):
\* the catch of convertToHLS logs and rethrows
ConvertProbeFail ==
    /\ conversions.run = "probing"
    /\ conversions' = [conversions EXCEPT !.run = "rejected"]
    /\ UNCHANGED << pipelineVars, agg, subscribers, handles, issued, ret,
                    clock, mf, task, poll >>

ConvertVideoProgress ==
    /\ conversions.video = "running"
    /\ \E percent \in TaskPercents :
          /\ percent > conversions.videoProgress
          /\ LET c == [conversions EXCEPT !.videoProgress = percent]
             IN  conversions' = ConvertReport(c, ConvertTotal(c))
    /\ UNCHANGED << pipelineVars, agg, subscribers, handles, issued, ret,
                    clock, mf, task, poll >>

ConvertAudioProgress ==
    /\ \E i \in 1..Len(conversions.audio), percent \in TaskPercents :
          /\ conversions.audio[i] = "running"
          /\ percent > conversions.audioProgressMap[i]
          /\ LET c == [conversions EXCEPT !.audioProgressMap[i] = percent]
             IN  conversions' = ConvertReport(c, ConvertTotal(c))
    /\ UNCHANGED << pipelineVars, agg, subscribers, handles, issued, ret,
                    clock, mf, task, poll >>

\* what follows a task's 'end': its onProgress(100); when Promise.all
\* resolves with it, reportProgress(90), master.m3u8, reportProgress(100)
\* and the return of the result (onComplete is not called)
ConvertAfterEnd(c) ==
    LET c1 == ConvertReport(c, ConvertTotal(c))
    IN  IF /\ c1.run = "running"
           /\ c1.video = "ended"
           /\ \A i \in 1..Len(c1.audio) : c1.audio[i] = "ended"
        THEN [ConvertReport(ConvertReport(c1, 90 * PerCent), 100 * PerCent)
                 EXCEPT !.run = "resolved", !.master = TRUE]
        ELSE c1

ConvertVideoEnd ==
    /\ conversions.video = "running"
    /\ conversions' = ConvertAfterEnd([conversions EXCEPT !.videoProgress = 100,
                                                             !.video = "ended"])
    /\ UNCHANGED << pipelineVars, agg, subscribers, handles, issued, ret,
                    clock, mf, task, poll >>

ConvertAudioEnd ==
    /\ \E i \in 1..Len(conversions.audio) :
          /\ conversions.audio[i] = "running"
          /\ conversions' =
                 ConvertAfterEnd([conversions EXCEPT !.audioProgressMap[i] = 100,
                                                     !.audio[i] = "ended"])
    /\ UNCHANGED << pipelineVars, agg, subscribers, handles, issued, ret,
                    clock, mf, task, poll >>

\* a task's 'error': Promise.all rejects if still pending; the catch of
\* convertToHLS logs and rethrows (onError is not called)
ConvertAfterError(c) ==
    IF c.run = "running" THEN [c EXCEPT !.run = "rejected"] ELSE c

ConvertVideoError ==
    /\ conversions.video = "running"
    /\ conversions' = ConvertAfterError([conversions EXCEPT !.video = "failed"])
    /\ UNCHANGED << pipelineVars, agg, subscribers, handles, issued, ret,
                    clock, mf, task, poll >>

ConvertAudioError ==
    /\ \E i \in 1..Len(conversions.audio) :
          /\ conversions.audio[i] = "running"
          /\ conversions' = ConvertAfterError([conversions EXCEPT !.audio[i] = "failed"])
    /\ UNCHANGED << pipelineVars, agg, subscribers, handles, issued, ret,
                    clock, mf, task, poll >>

NextConvert ==
    \/ ConvertPost
    \/ ConvertProbeDone
    \/ ConvertProbeFail
    \/ ConvertVideoProgress
    \/ ConvertAudioProgress
    \/ ConvertVideoEnd
    \/ ConvertAudioEnd
    \/ ConvertVideoError
    \/ ConvertAudioError

SpecConvert == Init /\ [][NextConvert]_vars

\* every step that can be taken is taken in the end: ffprobe answers and
\* every started ffmpeg process emits its events and exits
SpecConvertFair == SpecConvert /\ WF_vars(NextConvert)

\* ================================================================ claims
JobExists == JobId \in DOMAIN jobs
Job == jobs[JobId]

StatusChain ==
    << "created", "analyzing", "analyzed", "downloading", "downloaded",
       "converting", "ready" >>

IsPrefix(s, t) == Len(s) <= Len(t) /\ \A i \in 1..Len(s) : s[i] = t[i]

\* C1: over any sequence of updateJob calls on a job, including the
\* download and transcode progress updates of processVideo, the job's
\* progress never decreases (a lower supplied value is clamped up).
C1_ProgressMonotone == [][ProgressOf(jobs') >= ProgressOf(jobs)]_vars

\* C2: once the job's status is ready, error or cancelled, no later
\* updateJob call changes the status (every step but Cancel changes the
\* job through updateJob only).
C2_TerminalStable ==
    [][Cancel \/ (StatusOf(jobs) \in Terminal => StatusOf(jobs') = StatusOf(jobs))]_vars

\* C3: cancelJob on a job in a terminal status leaves the record unchanged
\* and returns false; on a job in a non-terminal status it sets the status
\* to cancelled and returns true.
C3_CancelJob ==
    [][(Cancel /\ JobExists) =>
         IF StatusOf(jobs) \in Terminal
         THEN jobs' = jobs /\ lastCancel' = FALSE
         ELSE StatusOf(jobs') = "cancelled" /\ lastCancel' = TRUE]_vars

\* C4: a job cancelled while its status was downloading stays cancelled: no
\* later download progress callback or completion step sets the status to
\* downloading, downloaded, converting or ready.
C4_CancelWhileDownloading ==
    [][(cancelledAt = "downloading" /\ StatusOf(jobs) = "cancelled") =>
         StatusOf(jobs') \notin {"downloading", "downloaded", "converting", "ready"}]_vars

\* C5: when processVideo has observed a cancellation at a checkpoint and
\* unwound, the job's status is cancelled, not error.
C5_CancelledNotError ==
    thrown = "Job cancelled" => StatusOf(jobs) = "cancelled"

\* C6: in a run of processVideo with no stage failure and no cancel the
\* distinct consecutive status values are, in order, created, analyzing,
\* analyzed, downloading, downloaded, converting, ready, and the finished
\* job carries a streamUrl.
C6_CleanRunStatuses ==
    /\ (JobExists /\ ~cancelSeen /\ pc # "failed") => IsPrefix(statusTrace, StatusChain)
    /\ (pc = "done" /\ ~cancelSeen) =>
          /\ statusTrace = StatusChain
          /\ "streamUrl" \in DOMAIN Job
          /\ Job.streamUrl # "null"

C6_Witness == pc = "done" /\ ~cancelSeen /\ StatusOf(jobs) = "ready"

\* C7: when the video task fails while audio tasks are still running (and
\* nobody cancels), the job is in status error and stays there whatever the
\* audio tasks do later, and the output directory is gone.
C7_VideoFailure ==
    (thrown = "Video conversion failed" /\ ~cancelSeen) =>
        (StatusOf(jobs) = "error" /\ ~dirExists)

\* C8: master.m3u8 exists only when the video task and every audio task
\* have ended successfully; a job has status ready or a streamUrl only when
\* master.m3u8 has been written; every playlist the manifest of a ready job
\* refers to exists.
C8_ManifestAfterVariants ==
    /\ MasterName \in files => AllEnded(conv)
    /\ (JobExists /\ (Job.status = "ready" \/ "streamUrl" \in DOMAIN Job)) =>
          (MasterName \in files /\ manifest # <<>>)
    /\ StatusOf(jobs) = "ready" =>
          \A i \in 1..Len(manifest) : manifest[i].uri \in files

C8_Witness ==
    /\ StatusOf(jobs) = "ready"
    /\ MasterName \in files
    /\ Len(audioTracks) = 2
    /\ \E i \in 1..Len(audioTracks) : audioTracks[i].language = <<"p", "t", "-", "B", "R">>

\* C9: for a video progress in [0,100] and a non-empty list of audio
\* progresses the aggregate is 0.6*video + 0.3*mean(audio); video 40 with
\* audio 20 and 60 gives 36.
C9_AggregateFormula ==
    (agg.result # -1 /\ Len(agg.audio) >= 1) =>
        /\ agg.result * 10 * Len(agg.audio) =
              PerCent * (6 * agg.video * Len(agg.audio) + 3 * SumSeq(agg.audio))
        /\ (agg.video = 40 /\ agg.audio = <<20, 60>>) => agg.result = 36 * PerCent

C9_Witness ==
    agg.video = 40 /\ agg.audio = <<20, 60>> /\ agg.result = 36 * PerCent

\* C10: with no audio track the aggregate is a number, 0.6*video; video 50
\* gives 30.
C10_EmptyAudio ==
    (agg.result # -1 /\ agg.audio = <<>>) =>
        /\ agg.result * 10 = PerCent * 6 * agg.video
        /\ agg.video = 50 => agg.result = 30 * PerCent

C10_Witness == agg.video = 50 /\ agg.audio = <<>> /\ agg.result = 30 * PerCent

\* C11: during a convertToHLS run no value above 90 is passed to onProgress
\* before master.m3u8 is written (lastReportedProgress is the value last
\* passed, and the values passed only grow), and once the manifest is
\* written the last value passed is 100, passed after the write.
C11_HundredAfterManifest ==
    /\ conv.atWrite = -1 => conv.lastReportedProgress <= 90 * PerCent
    /\ conv.atWrite # -1 =>
          /\ conv.atWrite <= 90 * PerCent
          /\ conv.lastReportedProgress = 100 * PerCent

C11_Witness ==
    /\ pc = "done"
    /\ MasterName \in files
    /\ conv.atWrite = 90 * PerCent
    /\ conv.lastReportedProgress = 100 * PerCent

\* C12: the progress of the job is within 0..100 in every reachable state,
\* also when the download receives more bytes than content-length announced.
C12_ProgressInRange ==
    JobExists => (Job.progress >= 0 /\ Job.progress <= 100 * PerCent)

\* C13: the function returned by subscribe removes the registration made by
\* its own subscribe call and no other, and its second call changes nothing:
\* a callback is registered under an id exactly when some subscribe call
\* for that id and callback has not had its returned function called yet.
\* This is to hold also when one callback is subscribed to an id twice or
\* again after its first unsubscribe.
Registered(id, callback) == InSeq(callback, SubsOf(subscribers, id))
LiveHandle(id, callback) ==
    \E h \in 1..Len(handles) :
        /\ handles[h].id = id
        /\ handles[h].callback = callback
        /\ handles[h].calls = 0

C13_UnsubscribeExact ==
    \A id \in Ids, callback \in Callbacks :
        Registered(id, callback) <=> LiveHandle(id, callback)

\* the last client call was an updateJob or cancelJob that found its job
Notifying == ret.op \in {"updateJob", "cancelJob"} /\ ret.existed
TimesCalled(callback) ==
    Cardinality({i \in 1..Len(ret.calls) : ret.calls[i].callback = callback})

\* C14: an updateJob or cancelJob call on an existing job calls every
\* callback subscribed to that id exactly once, with the job as it is after
\* the call, and calls no callback that is subscribed to other ids only.
C14_NotifyEachOnce ==
    Notifying =>
        /\ \A callback \in Callbacks :
              TimesCalled(callback) =
                  IF InSeq(callback, SubsOf(subscribers, ret.id)) THEN 1 ELSE 0
        /\ \A i \in 1..Len(ret.calls) : ret.calls[i].data = jobs[ret.id]

C14_Witness ==
    /\ Notifying
    /\ ret.op = "updateJob"
    /\ SubsOf(subscribers, JobId) = <<"g">>
    /\ SubsOf(subscribers, OtherId) = <<"f", "g">>
    /\ ret.id = JobId
    /\ ret.calls = << [callback |-> "g", data |-> jobs[JobId]] >>
    /\ jobs[JobId].status = "downloading"

\* C15: when a subscribed callback throws during a notification, the
\* updateJob or cancelJob call still returns normally with the job changed,
\* and every subscriber of the id has been called.
C15_ThrowingSubscriber ==
    (Notifying /\ \E i \in 1..Len(SubsOf(subscribers, ret.id)) :
                      SubsOf(subscribers, ret.id)[i] \in ret.throwers) =>
        /\ ~ret.threw
        /\ ret.value = IF ret.op = "cancelJob" THEN ValBool(TRUE)
                       ELSE ValJob(jobs[ret.id])
        /\ ret.op = "cancelJob" => jobs[ret.id].status = "cancelled"
        /\ \A i \in 1..Len(SubsOf(subscribers, ret.id)) :
              TimesCalled(SubsOf(subscribers, ret.id)[i]) = 1

C15_Witness ==
    /\ Notifying
    /\ ret.op = "cancelJob"
    /\ ret.throwers = {"f"}
    /\ SubsOf(subscribers, ret.id) = <<"f", "g">>
    /\ TimesCalled("g") = 1
    /\ ret.value = ValBool(TRUE)

\* what each lookup hands back when there is no job under the id
NotFound(op) ==
    CASE op = "getJob" -> [kind |-> "got", got |-> "null"]
      [] op = "updateJob" -> ValNull
      [] op = "cancelJob" -> ValBool(FALSE)
      [] op = "isCancelled" -> ValBool(FALSE)

\* C16: getJob, updateJob, cancelJob and isCancelled on an id without a job
\* (never created, or deleted by the cleanup) return null, null, false and
\* false, throw nothing, create no job and call no subscriber.
C16_UnknownId ==
    [][ (/\ ret'.op \in {"getJob", "updateJob", "cancelJob", "isCancelled"}
         /\ ret'.id \notin DOMAIN jobs)
        => /\ ret'.value = NotFound(ret'.op)
           /\ ~ret'.threw
           /\ ret'.calls = <<>>
           /\ jobs' = jobs
           /\ subscribers' = subscribers ]_vars

\* an updateJob on an id whose job the cleanup deleted, subscribers present
C16_Witness ==
    /\ ret.op = "updateJob"
    /\ ~ret.existed
    /\ ret.id \in issued
    /\ ret.id \notin DOMAIN jobs
    /\ SubsOf(subscribers, ret.id) # <<>>
    /\ ret.value = ValNull

\* C17: after a run of the cleanup no job older than 24 hours is left and no
\* subscription of such a job; every job that is not older, and the
\* callbacks subscribed to it, are as they were before.
C17_Sweep ==
    [][ ret'.op = "sweep" =>
          /\ \A id \in DOMAIN jobs' : clock' - jobs'[id].createdAt <= maxAge
          /\ \A id \in DOMAIN jobs :
                IF clock - jobs[id].createdAt > maxAge
                THEN id \notin DOMAIN jobs' /\ id \notin DOMAIN subscribers'
                ELSE /\ id \in DOMAIN jobs'
                     /\ jobs'[id] = jobs[id]
                     /\ SubsOf(subscribers', id) = SubsOf(subscribers, id) ]_vars

\* the cleanup has deleted one job and left a younger one with its subscriber
C17_Witness ==
    /\ ret.op = "sweep"
    /\ issued = Ids
    /\ DOMAIN jobs = {OtherId}
    /\ clock - jobs[OtherId].createdAt = maxAge
    /\ DOMAIN subscribers = {OtherId}

\* C18: the consumer of a live-update stream receives at most one message
\* whose status is ready, error or cancelled, and no message after it.
C18_OneTerminalMessage == sse.terminals <= 1 /\ ~sse.after

\* C19: a live-update stream that is open while the job is ready or error
\* (opened before or after the job got there) is eventually not open any
\* more.
C19_StreamClosed ==
    [](( /\ sse.state = "open"
         /\ JobExists
         /\ StatusOf(jobs) \in {"ready", "error"} )
       => <>(sse.state # "open"))

\* C20: for every audio-track list with at least one entry, whatever the
\* default flags of its tracks, the rendered master playlist has exactly one
\* EXT-X-MEDIA entry with DEFAULT=YES.
DefaultEntries(out) ==
    {i \in 1..Len(out) : out[i].tag = "EXT-X-MEDIA" /\ out[i].default = "YES"}

C20_OneDefault ==
    (mf.out # <<>> /\ Len(mf.tracks) >= 1) =>
        Cardinality(DefaultEntries(mf.out)) = 1

\* C21: for every audio track, whatever characters its language has, the
\* playlist name in the URI of its EXT-X-MEDIA entry in master.m3u8 is the
\* name of the playlist file the track's audio task writes.
C21_UriIsTaskFile ==
    manifest # <<>> =>
        \A i \in 1..Len(audioTracks) :
            /\ manifest[i].tag = "EXT-X-MEDIA"
            /\ manifest[i].uri =
                   AudioPlaylistName(FF_safeLanguage(audioTracks[i].language))
            /\ manifest[i].uri \in files

C21_Witness ==
    /\ pc = "done"
    /\ Len(audioTracks) = 2
    /\ audioTracks[2].language = <<"p", "t", "-", "B", "R">>
    /\ manifest[2].uri = <<"audio_", "p", "t", "_", "B", "R", ".m3u8">>
    /\ manifest[2].uri \in files

\* C22: generateMaster emits one EXT-X-MEDIA entry per audio track in the
\* order supplied, the i-th with URI audio_<slug of language i>.m3u8,
\* DEFAULT=YES exactly when track i is flagged default, and AUTOSELECT=YES;
\* then exactly one EXT-X-STREAM-INF entry with AUDIO="audio" and the video
\* playlist.  For tracks ja (default) and en the URIs are audio_ja.m3u8 and
\* audio_en.m3u8.
JaEn(tracks) ==
    /\ Len(tracks) = 2
    /\ tracks[1].language = <<"j", "a">> /\ tracks[1].default
    /\ tracks[2].language = <<"e", "n">> /\ ~tracks[2].default

C22_MasterLayout ==
    mf.out # <<>> =>
        /\ Len(mf.out) = Len(mf.tracks) + 1
        /\ \A i \in 1..Len(mf.tracks) :
              /\ mf.out[i].tag = "EXT-X-MEDIA"
              /\ mf.out[i].language = mf.tracks[i].language
              /\ mf.out[i].name = mf.tracks[i].name
              /\ mf.out[i].uri =
                     AudioPlaylistName(FF_safeLanguage(mf.tracks[i].language))
              /\ (mf.out[i].default = "YES") <=> mf.tracks[i].default
              /\ mf.out[i].default \in {"YES", "NO"}
              /\ mf.out[i].autoselect = "YES"
        /\ mf.out[Len(mf.out)] =
              [tag |-> "EXT-X-STREAM-INF", audio |-> "audio",
               uri |-> VideoPlaylistName]
        /\ JaEn(mf.tracks) =>
              /\ mf.out[1].uri = <<"audio_", "j", "a", ".m3u8">>
              /\ mf.out[2].uri = <<"audio_", "e", "n", ".m3u8">>

C22_Witness ==
    /\ JaEn(mf.tracks)
    /\ Len(mf.out) = 3
    /\ mf.out[1].default = "YES"
    /\ mf.out[2].default = "NO"
    /\ mf.out[2].uri = <<"audio_", "e", "n", ".m3u8">>

C24_CancelWhileAnalyzing ==
    [][(cancelledAt = "analyzing" /\ StatusOf(jobs) = "cancelled") =>
         /\ StatusOf(jobs') \notin {"analyzed", "downloading"}
         /\ dl'.stage = "none"]_vars

\* C25: a job on which cancelJob was called before it reached ready never
\* reaches ready (and its output directory is eventually removed).  A
\* cancelJob call on a ready job sets the status to cancelled, so a job that
\* is ready after a cancelJob call was cancelled before it got there.
C25_CancelledNeverReady ==
    cancelSeen => StatusOf(jobs) # "ready"

\* C26: while the job is cancelled, a transcode progress value handed to
\* processVideo's onProgress callback makes no Job Store call that changes
\* or notifies: the job record stays as it is and the live-update stream
\* receives nothing.
ProgressDelivered ==
    /\ conv'.lastReportedProgress # conv.lastReportedProgress
    /\ pc' = pc

C26_CancelledIgnoresProgress ==
    [][ StatusOf(jobs) = "cancelled" =>
          /\ \A p \in 0..100 :
                OnConvertProgress(St(jobs, <<>>), p * PerCent) = St(jobs, <<>>)
          /\ ProgressDelivered => (jobs' = jobs /\ sse' = sse) ]_vars

\* a progress value was reported after the cancel and the job kept the
\* progress it had, with the stream open
C26_Witness ==
    /\ StatusOf(jobs) = "cancelled"
    /\ cancelledAt = "converting"
    /\ pc = "convert"
    /\ sse.state = "open"
    /\ conv.lastReportedProgress > Job.progress

\* C27: convertToHLS looks at the job's cancellation flag before it launches
\* the encode tasks: when the job is cancelled at that point, no video or
\* audio task is started (and the outcome is a cancellation).
C27_NoLaunchWhenCancelled ==
    [][(pc = "convProbe" /\ isCancelled(jobs, JobId)) =>
         /\ conv'.video # "running"
         /\ \A i \in 1..Len(conv'.audio) : conv'.audio[i] # "running"]_vars

\* C28: convertToHLS starts one video task and one audio task per entry of
\* audioTracks, all of them before any of them has completed: whenever a
\* task has been started, every task has been, and in the step that starts
\* them none has ended.
TaskStates == {"running", "ended", "failed"}

C28_AllTasksStartedTogether ==
    [][ /\ conv'.video # "idle" =>
              /\ conv'.video \in TaskStates
              /\ Len(conv'.audio) = Len(audioTracks')
              /\ \A i \in 1..Len(conv'.audio) : conv'.audio[i] \in TaskStates
        /\ (conv.video = "idle" /\ conv'.video # "idle") =>
              /\ conv'.video = "running"
              /\ \A i \in 1..Len(conv'.audio) : conv'.audio[i] = "running" ]_vars

C28_Witness ==
    /\ pc = "convert"
    /\ Len(audioTracks) = 2
    /\ conv.video = "running"
    /\ conv.videoProgress = 0
    /\ conv.audio = <<"running", "running">>

\* the errors an encode task rejects with
TaskFailures == {"Video conversion failed", "Audio failed"}

\* C29 as stated: when an encode task has failed, convertToHLS has failed
\* with that task's error, no master.m3u8 is written and neither 90 nor 100
\* has been reported to onProgress in that run.
C29_NoNinetyInFailedRun ==
    thrown \in TaskFailures =>
        /\ MasterName \notin files
        /\ conv.atWrite = -1
        /\ conv.lastReportedProgress < 90 * PerCent

AllAtHundred(cv) ==
    /\ cv.videoProgress = 100
    /\ Len(cv.audioProgressMap) >= 1
    /\ \A i \in 1..Len(cv.audioProgressMap) : cv.audioProgressMap[i] = 100

FailedRunOk ==
    thrown \in TaskFailures =>
        /\ MasterName \notin files
        /\ conv.atWrite = -1
        /\ conv.lastReportedProgress <= 90 * PerCent
        /\ conv.lastReportedProgress = 90 * PerCent => AllAtHundred(conv)

\* C29, amended: convertToHLS fails in the step in which the first task
\* fails, with that task's error and with the other tasks as they were
\* (running ones still running); from then on the error stays, no
\* master.m3u8 is written and 100 is never reported; 90 has been reported
\* only if every task had announced 100 percent.
C29_FailFast ==
    [][ /\ FailedRunOk'
        /\ thrown \in TaskFailures => thrown' = thrown
        /\ (thrown \notin TaskFailures /\ thrown' \in TaskFailures) =>
              /\ pc = "convert" /\ pc' = "failed"
              /\ IF thrown' = "Video conversion failed"
                 THEN /\ conv.video = "running" /\ conv'.video = "failed"
                      /\ conv'.audio = conv.audio
                 ELSE /\ conv'.video = conv.video
                      /\ \E i \in 1..Len(conv.audio) :
                            /\ conv.audio[i] = "running"
                            /\ conv'.audio = [conv.audio EXCEPT ![i] = "failed"] ]_vars

\* the video task has failed with an audio task still running, after every
\* task had announced 100 percent
C29_Witness ==
    /\ thrown = "Video conversion failed"
    /\ conv.video = "failed"
    /\ Len(conv.audio) = 2
    /\ conv.audio[1] = "running"
    /\ conv.lastReportedProgress = 90 * PerCent
    /\ MasterName \notin files

\* the encode tasks of a run: the video task (0) and one audio task per
\* track (its index)
TaskIds == 0..MaxAudio

TaskRunning(t) ==
    IF t = 0
    THEN conv.video = "running"
    ELSE t \in 1..Len(conv.audio) /\ conv.audio[t] = "running"

\* an encode task has failed, or the job was cancelled while converting
TranscodeAborted ==
    \/ thrown \in TaskFailures
    \/ /\ StatusOf(jobs) = "cancelled"
       /\ cancelledAt = "converting"

\* C30: once an encode task has failed, or the job has been cancelled
\* during the transcode stage, every encode task that is still running is
\* eventually sent a stop request.
C30_RunningTasksStopped ==
    \A t \in TaskIds :
        [] ((TranscodeAborted /\ TaskRunning(t)) => <>(t \in conv.stops))

\* the errors a stage of processVideo throws
StageErrors ==
    {"Job cancelled", "Failed to analyze URL", "Download failed",
     "write failed", "probe failed"} \cup TaskFailures

\* C31: in the step in which processVideo fails, whatever the stage, the
\* job is set to error with the message of the stage's error; unless
\* rmSync threw, the output directory was already gone when the error was
\* recorded; if rmSync threw, the directory is still there and the job
\* carries the stage's message all the same.  The message stays on the job
\* from then on.
C31_CleanupBeforeError ==
    [][ /\ pc' = "failed" => (JobId \in DOMAIN jobs' /\ jobs'[JobId].message = thrown')
        /\ (pc # "failed" /\ pc' = "failed") =>
            /\ thrown' \in StageErrors
            /\ jobs'[JobId].status = "error"
            /\ caught'.rm \in {"absent", "removed", "threw"}
            /\ caught'.rm # "threw" => (~caught'.dirAtError /\ ~dirExists')
            /\ caught'.rm = "threw" => dirExists' ]_vars

\* rmSync threw while a task's failure was handled
C31_Witness ==
    /\ pc = "failed"
    /\ caught.rm = "threw"
    /\ dirExists
    /\ thrown = "Audio failed"
    /\ JobExists
    /\ Job.status = "error"
    /\ Job.message = "Audio failed"

TaskStarted == task.state \in {"running", "resolved", "rejected"}

\* C32: the values one encode task passes to onProgress never decrease and
\* never exceed 100; a sample that is not above the last reported value is
\* not passed on (so the values reported from samples rise strictly, and
\* only the 100 of 'end' can repeat the value before it); a task that
\* completed reported 100 last.
C32_TaskProgressMonotone ==
    TaskStarted =>
        LET r == task.reported
        IN  /\ \A i \in 1..Len(r) : r[i] > 0 /\ r[i] <= 100 * PerCent
            /\ \A i \in 1..(Len(r) - 1) :
                  /\ r[i] <= r[i + 1]
                  /\ r[i] = r[i + 1] =>
                        /\ i + 1 = Len(r)
                        /\ task.state = "resolved"
                        /\ r[i] = 100 * PerCent
            /\ task.state = "resolved" => (r # <<>> /\ r[Len(r)] = 100 * PerCent)
            /\ (task.state = "running" /\ r # <<>>) => r[Len(r)] = task.lastPercent

\* a task reported a rise, dropped a later sample and completed
C32_Witness ==
    /\ TaskStarted
    /\ task.state = "resolved"
    /\ task.dropped
    /\ Len(task.reported) = 3
    /\ task.reported[1] < task.reported[2]
    /\ task.reported[2] < 100 * PerCent

\* C33: whatever the order of the tasks' progress events, each value
\* convertToHLS passes to its caller's onProgress is above the one passed
\* before it, and all of them lie within [0,100].
C33_AggregateStrictlyIncreasing ==
    [][ /\ conv'.strict
        /\ conv'.lastReportedProgress >= 0
        /\ conv'.lastReportedProgress <= 100 * PerCent
        /\ (conv.video # "idle" /\ conv'.video # "idle") =>
              conv'.lastReportedProgress >= conv.lastReportedProgress ]_vars

\* an audio task's event was reported between two events of the video task
C33_Witness ==
    /\ Len(conv.audio) = 2
    /\ conv.videoProgress = 100
    /\ conv.video = "running"
    /\ conv.audioProgressMap[1] = 1
    /\ conv.audioProgressMap[2] = 100
    /\ conv.lastReportedProgress =
           calculateTotalProgress(100, <<1, 100>>, 2)
    /\ conv.strict

\* the playlist path audio task i writes to
AudioOutput(i) == AudioPlaylistName(FF_safeLanguage(audioTracks[i].language))

\* C34: two audio tasks of a job that run at the same time never write to
\* the same playlist, whatever the language tags of their tracks, and the
\* manifest names a different playlist for each track.
C34_DistinctAudioOutputs ==
    /\ \A i, j \in 1..Len(conv.audio) :
          (i # j /\ conv.audio[i] = "running" /\ conv.audio[j] = "running")
              => AudioOutput(i) # AudioOutput(j)
    /\ manifest # <<>> =>
          \A i, j \in 1..Len(audioTracks) :
              i # j => manifest[i].uri # manifest[j].uri

\* the fields of job.fileInfo that are set (none before the first update)
FileInfoFields(js) ==
    IF JobId \in DOMAIN js /\ "fileInfo" \in DOMAIN js[JobId]
    THEN js[JobId].fileInfo
    ELSE {}

\* C35: a field of job.fileInfo that is set stays set in every later state
\* of the job.
C35_FileInfoKept ==
    [][ (JobId \in DOMAIN jobs') =>
            (\A f \in FileInfoFields(jobs) : f \in FileInfoFields(jobs')) ]_vars

\* C36: a job whose status is downloaded, converting, ready, error or
\* cancelled has neither a speed nor an eta field.
C36_SpeedOnlyWhileDownloading ==
    (JobExists /\ Job.status \in {"downloaded", "converting", "ready",
                                  "error", "cancelled"})
        => ("speed" \notin DOMAIN Job /\ "eta" \notin DOMAIN Job)

VideoTaskStarted == TaskStarted /\ task.kind = "video"
H264Family == {"h264", "H264", "avc1", "avc"}
ReencodeOptions == [codec |-> "libx264", pix_fmt |-> <<"y","u","v","4","2","0","p">>]
CopyOptions == [codec |-> "copy", pix_fmt |-> <<>>]

\* C37 as stated: the video task copies the stream exactly when the source
\* codec is one of h264, avc1, avc and the pixel format is not a 10-bit
\* one; in every other case it re-encodes with libx264 to yuv420p.
C37_CopyUnlessTenBit ==
    VideoTaskStarted =>
        IF /\ task.video.present
           /\ task.video.codec \in H264Family
           /\ ~Includes(task.video.pix_fmt, <<"1", "0">>)
        THEN task.options = CopyOptions
        ELSE task.options = ReencodeOptions

\* C37, amended: the video task copies the stream exactly when the source
\* codec is one of h264, avc1, avc (in any letter case) and the name of the
\* pixel format contains yuv420p and does not contain 10; in every other
\* case (no video stream, no pixel format, another 8-bit format such as
\* yuv422p or yuvj420p, a 10-bit format, another codec) it re-encodes with
\* libx264 to yuv420p.
C37_CopyOnlyYuv420p ==
    VideoTaskStarted =>
        IF /\ task.video.present
           /\ task.video.codec \in H264Family
           /\ Includes(task.video.pix_fmt, <<"y","u","v","4","2","0","p">>)
           /\ ~Includes(task.video.pix_fmt, <<"1", "0">>)
        THEN task.options = CopyOptions
        ELSE task.options = ReencodeOptions

\* an H.264 source in an 8-bit format other than yuv420p is re-encoded
C37_Witness ==
    /\ VideoTaskStarted
    /\ task.video.present
    /\ task.video.codec = "h264"
    /\ task.video.pix_fmt = <<"y","u","v","4","2","2","p">>
    /\ task.options = ReencodeOptions

NonTerminal ==
    {"created", "analyzing", "analyzed", "downloading", "downloaded",
     "converting"}

\* C38: once the live-update stream has failed, every poll that returns a
\* status that is not terminal (created, analyzing, analyzed, downloading,
\* downloaded, converting) is followed by another poll being scheduled.
C38_PollUntilTerminal ==
    [][ (poll.state = "fetching" /\ poll'.state # "fetching"
            /\ poll'.seen \in NonTerminal)
          => poll'.state = "waiting" ]_vars

\* C39: a conversion job started through POST /api/convert eventually
\* leaves status processing: once convertToHLS has succeeded its status is
\* complete, and once convertToHLS has failed its status is error.
C39_ConversionSettles ==
    /\ [](conversions.status = "processing"
            => <>(conversions.status \in {"complete", "error"}))
    /\ [](conversions.run = "resolved" => <>(conversions.status = "complete"))
    /\ [](conversions.run = "rejected" => <>(conversions.status = "error"))

=============================================================================
